---- MODULE Spec2Model ----
(***************************************************************************)
(* The review-statistics layer of the procurement transparency backend:    *)
(* DatabaseService (src/backend/app/database/service.py) over the tables   *)
(* of src/backend/app/database/models.py, and the seeding script           *)
(* src/backend/migrate_database.py.                                        *)
(*                                                                         *)
(* Conventions.  SQL NULL and Python None are the empty tuple; a value     *)
(* that may be NULL is wrapped, Some(v) == <<v>>.  A str is the tuple of   *)
(* its characters where the code looks inside it (review_type), and a      *)
(* TLA+ string where it is only compared (identifiers).  A float is the    *)
(* reduced fraction it rounds.  Every await on the database is one step    *)
(* of a worker; everything between two awaits belongs to the later step.   *)
(***************************************************************************)
EXTENDS Integers, Sequences, FiniteSets, TLC

VARIABLES
    projects,            \* table projects: the set of project ids stored
    project_rows,        \* table projects: per stored id, the other columns of its row
    citizen_reports,     \* table citizen_reports: rows in insertion order
    project_statistics,  \* table project_statistics: rows in insertion order
    now,                 \* the wall clock read by datetime.now()
    pc,                  \* per worker: the await it is suspended at
    call,                \* per worker: the locals of the running call
    response,            \* what the last step handed back to a caller, if it ended a call
    solo                 \* per worker: no other call ran during this call

vars == <<projects, project_rows, citizen_reports, project_statistics, now, pc, call, response, solo>>

-----------------------------------------------------------------------------
(* Bounds of the model *)

\* Rows of citizen_reports in the concurrent runs and in the sequential runs.
MaxReports == 2
MaxSeqReports == 2
\* Ticks of the clock.
MaxClock == 1
\* Reports per project in the seed data.
MaxMockReports == 2
\* Rows of citizen_reports when the table is given.
MaxStoredReports == 2

Workers == {"w1", "w2"}

-----------------------------------------------------------------------------
(* Values *)

NULL == << >>
Some(v) == <<v>>

RECURSIVE GCD(_, _)
GCD(a, b) == IF b = 0 THEN a ELSE GCD(b, a % b)

\* The float n / d, n >= 0, d > 0.
Frac(n, d) == LET g == GCD(n, d) IN [num |-> n \div g, den |-> d \div g]

RECURSIVE SumSeq(_)
SumSeq(s) == IF s = << >> THEN 0 ELSE Head(s) + SumSeq(Tail(s))

\* An Optional[dict] as a condition: neither None nor the empty dictionary.
DictTruthy(d) == d # NULL /\ DOMAIN d[1] # {}

\* json.dumps / json.loads: the text of a value, and the value of a text.  An
\* Optional[dict] is dumped wrapped, so that "null" and "{}" are two texts.
JsonDumps(v) == [json |-> v]
JsonLoads(t) == t.json

-----------------------------------------------------------------------------
(* str.lower() and str.replace(" ", "_") on review type labels *)

UpperChars == <<"A", "B", "C", "D", "E", "F", "G", "H", "I", "J", "K", "L", "M",
                "N", "O", "P", "Q", "R", "S", "T", "U", "V", "W", "X", "Y", "Z">>
LowerChars == <<"a", "b", "c", "d", "e", "f", "g", "h", "i", "j", "k", "l", "m",
                "n", "o", "p", "q", "r", "s", "t", "u", "v", "w", "x", "y", "z">>

LowerChar(c) ==
    IF \E i \in DOMAIN UpperChars : UpperChars[i] = c
    THEN LowerChars[CHOOSE i \in DOMAIN UpperChars : UpperChars[i] = c]
    ELSE c

StrLower(s) == [i \in DOMAIN s |-> LowerChar(s[i])]
StrReplaceSpace(s) == [i \in DOMAIN s |-> IF s[i] = " " THEN "_" ELSE s[i]]

NormalizeType(review_type) == StrReplaceSpace(StrLower(review_type))

progress_update == <<"p","r","o","g","r","e","s","s","_","u","p","d","a","t","e">>
quality_issue == <<"q","u","a","l","i","t","y","_","i","s","s","u","e">>
completion_verification ==
    <<"c","o","m","p","l","e","t","i","o","n","_","v","e","r","i","f","i","c","a","t","i","o","n">>
delay_report == <<"d","e","l","a","y","_","r","e","p","o","r","t">>
fraud_alert == <<"f","r","a","u","d","_","a","l","e","r","t">>

\* ReviewType values of the submit endpoint, and a label outside the enumeration.
ProgressUpdate == <<"P","r","o","g","r","e","s","s"," ","U","p","d","a","t","e">>
QualityIssue == <<"Q","u","a","l","i","t","y"," ","I","s","s","u","e">>
CompletionVerification ==
    <<"C","o","m","p","l","e","t","i","o","n"," ","V","e","r","i","f","i","c","a","t","i","o","n">>
DelayReport == <<"D","e","l","a","y"," ","R","e","p","o","r","t">>
FraudAlert == <<"F","r","a","u","d"," ","A","l","e","r","t">>
OtherLabel == <<"O","t","h","e","r">>

\* Labels the String column can hold that are spelled unlike the enumeration:
\* other letter case, a leading, a doubled and a trailing space.
QualityIssueUpper == <<"Q","U","A","L","I","T","Y"," ","I","S","S","U","E">>
QualityIssueLeading == <<" ","Q","u","a","l","i","t","y"," ","I","s","s","u","e">>
QualityIssueDouble == <<"Q","u","a","l","i","t","y"," "," ","I","s","s","u","e">>
ProgressUpdateTrailing ==
    <<"p","r","o","g","r","e","s","s"," ","u","p","d","a","t","e"," ">>

-----------------------------------------------------------------------------
(* recalculate_project_statistics: the statistics of a list of report rows *)

\* r["quality_rating"] as a condition: neither None nor 0.
RatingTruthy(q) == q # NULL /\ q[1] # 0

\* r["photo_urls"] and json.loads(r["photo_urls"]): a text that holds a non-empty list.
HasImages(photo_urls) == photo_urls # NULL /\ Len(JsonLoads(photo_urls[1])) > 0

\* A variant in which a review without a rating enters as a rating of 0.
RECURSIVE ratings_none_as_zero(_)
ratings_none_as_zero(reports) ==
    IF reports = << >> THEN << >>
    ELSE <<IF Head(reports).quality_rating # NULL
           THEN Head(reports).quality_rating[1] ELSE 0>>
         \o ratings_none_as_zero(Tail(reports))

RECURSIVE ratings(_)
ratings(reports) ==
    IF reports = << >> THEN << >>
    ELSE (IF RatingTruthy(Head(reports).quality_rating)
          THEN <<Head(reports).quality_rating[1]>> ELSE << >>) \o ratings(Tail(reports))

work_completed_count(reports) ==
    Cardinality({i \in DOMAIN reports : reports[i].work_completed})

\* A variant that stores the ratio instead of the percentage.
work_completed_percentage_ratio(reports) ==
    IF Len(reports) > 0
    THEN Frac(work_completed_count(reports), Len(reports))
    ELSE Frac(0, 1)

work_completed_percentage(reports) ==
    IF Len(reports) > 0
    THEN Frac(work_completed_count(reports) * 100, Len(reports))
    ELSE Frac(0, 1)

\* A variant that divides by the number of reviews.
avg_rating_all_divisor(reports) ==
    IF ratings(reports) # << >>
    THEN Some(Frac(SumSeq(ratings(reports)), Len(reports)))
    ELSE NULL

avg_rating(reports) ==
    IF ratings(reports) # << >>
    THEN Some(Frac(SumSeq(ratings(reports)), Len(ratings(reports))))
    ELSE NULL

reviews_with_images(reports) ==
    Cardinality({i \in DOMAIN reports : HasImages(reports[i].photo_urls)})

verified_reviews(reports) == Cardinality({i \in DOMAIN reports : reports[i].verified})

\* A variant whose chain ends in an else that counts a progress update.
TypeBucket_else_progress(review_type) ==
    LET t == NormalizeType(review_type) IN
    IF t = quality_issue THEN "quality_issues"
    ELSE IF t = completion_verification THEN "completion_verifications"
    ELSE IF t = delay_report THEN "delay_reports"
    ELSE IF t = fraud_alert THEN "fraud_alerts"
    ELSE "progress_updates"

\* The if / elif chain over the normalized label: the counter it increments.
TypeBucket(review_type) ==
    LET t == NormalizeType(review_type) IN
    IF t = progress_update THEN "progress_updates"
    ELSE IF t = quality_issue THEN "quality_issues"
    ELSE IF t = completion_verification THEN "completion_verifications"
    ELSE IF t = delay_report THEN "delay_reports"
    ELSE IF t = fraud_alert THEN "fraud_alerts"
    ELSE "none"

review_type_counts(reports) ==
    [k \in {"progress_updates", "quality_issues", "completion_verifications",
            "delay_reports", "fraud_alerts"} |->
        Cardinality({i \in DOMAIN reports : TypeBucket(reports[i].review_type) = k})]

\* The values the upsert is given, last_calculated apart.
ComputeStatistics(reports) ==
    [total_reviews |-> Len(reports),
     work_completed_percentage |-> work_completed_percentage(reports),
     average_quality_rating |-> avg_rating(reports),
     reviews_with_images |-> reviews_with_images(reports),
     verified_reviews |-> verified_reviews(reports),
     progress_updates |-> review_type_counts(reports)["progress_updates"],
     quality_issues |-> review_type_counts(reports)["quality_issues"],
     completion_verifications |-> review_type_counts(reports)["completion_verifications"],
     delay_reports |-> review_type_counts(reports)["delay_reports"],
     fraud_alerts |-> review_type_counts(reports)["fraud_alerts"]]

-----------------------------------------------------------------------------
(* The tables *)

\* Variants of the SELECT with a wrong WHERE clause: none, and one on a column
\* that never matches.
SelectReports_all(table, project_id) == table
SelectReports_wrong_column(table, project_id) == << >>

\* SELECT * FROM citizen_reports WHERE project_id = :project_id
RECURSIVE SelectReports(_, _)
SelectReports(table, project_id) ==
    IF table = << >> THEN << >>
    ELSE (IF Head(table).project_id = project_id THEN <<Head(table)>> ELSE << >>)
         \o SelectReports(Tail(table), project_id)

\* SELECT * FROM project_statistics WHERE project_id = :project_id, fetch_one.
SelectStatistics(table, project_id) ==
    IF \E i \in DOMAIN table : table[i].project_id = project_id
    THEN Some(table[CHOOSE i \in DOMAIN table : table[i].project_id = project_id])
    ELSE NULL

\* The row of the VALUES clause.
StatisticsRow(project_id, s, t) ==
    [project_id |-> project_id,
     total_reviews |-> s.total_reviews,
     work_completed_percentage |-> s.work_completed_percentage,
     average_quality_rating |-> s.average_quality_rating,
     reviews_with_images |-> s.reviews_with_images,
     verified_reviews |-> s.verified_reviews,
     progress_updates |-> s.progress_updates,
     quality_issues |-> s.quality_issues,
     completion_verifications |-> s.completion_verifications,
     delay_reports |-> s.delay_reports,
     fraud_alerts |-> s.fraud_alerts,
     last_calculated |-> t]

\* Variants of the SET list: one that forgets the per-type counters, and one
\* that patches the counters incrementally instead of overwriting them.
ConflictUpdate_partial(row, excluded) ==
    [row EXCEPT !.total_reviews = excluded.total_reviews,
                !.work_completed_percentage = excluded.work_completed_percentage,
                !.average_quality_rating = excluded.average_quality_rating,
                !.reviews_with_images = excluded.reviews_with_images,
                !.verified_reviews = excluded.verified_reviews,
                !.last_calculated = excluded.last_calculated]
ConflictUpdate_accumulate(row, excluded) ==
    [row EXCEPT !.total_reviews = row.total_reviews + excluded.total_reviews,
                !.work_completed_percentage = excluded.work_completed_percentage,
                !.average_quality_rating = excluded.average_quality_rating,
                !.reviews_with_images = excluded.reviews_with_images,
                !.verified_reviews = excluded.verified_reviews,
                !.progress_updates = excluded.progress_updates,
                !.quality_issues = excluded.quality_issues,
                !.completion_verifications = excluded.completion_verifications,
                !.delay_reports = excluded.delay_reports,
                !.fraud_alerts = excluded.fraud_alerts,
                !.last_calculated = excluded.last_calculated]

\* ON CONFLICT (project_id) DO UPDATE SET ...: every column but project_id.
ConflictUpdate(row, excluded) ==
    [row EXCEPT !.total_reviews = excluded.total_reviews,
                !.work_completed_percentage = excluded.work_completed_percentage,
                !.average_quality_rating = excluded.average_quality_rating,
                !.reviews_with_images = excluded.reviews_with_images,
                !.verified_reviews = excluded.verified_reviews,
                !.progress_updates = excluded.progress_updates,
                !.quality_issues = excluded.quality_issues,
                !.completion_verifications = excluded.completion_verifications,
                !.delay_reports = excluded.delay_reports,
                !.fraud_alerts = excluded.fraud_alerts,
                !.last_calculated = excluded.last_calculated]

\* Variants of the upsert: a plain INSERT into a table without the unique
\* constraint, and ON CONFLICT DO NOTHING.
UpsertStatistics_plain_insert(table, row) == Append(table, row)
UpsertStatistics_do_nothing(table, row) ==
    IF \E i \in DOMAIN table : table[i].project_id = row.project_id
    THEN table ELSE Append(table, row)

\* INSERT INTO project_statistics ... ON CONFLICT (project_id) DO UPDATE.
UpsertStatistics(table, row) ==
    IF \E i \in DOMAIN table : table[i].project_id = row.project_id
    THEN [i \in DOMAIN table |->
            IF table[i].project_id = row.project_id
            THEN ConflictUpdate(table[i], row) ELSE table[i]]
    ELSE Append(table, row)

\* The derived columns of a statistics row.
Derived(row) ==
    [total_reviews |-> row.total_reviews,
     work_completed_percentage |-> row.work_completed_percentage,
     average_quality_rating |-> row.average_quality_rating,
     reviews_with_images |-> row.reviews_with_images,
     verified_reviews |-> row.verified_reviews,
     progress_updates |-> row.progress_updates,
     quality_issues |-> row.quality_issues,
     completion_verifications |-> row.completion_verifications,
     delay_reports |-> row.delay_reports,
     fraud_alerts |-> row.fraud_alerts]

\* The columns of a projects row that the queries look at.  procurement_plan
\* is the JSON document; a key the document lacks is NULL.
ProjectColumns(ministry, status, fiscal_year, plan, t) ==
    [ministry |-> ministry,
     status |-> status,
     fiscal_year |-> fiscal_year,
     procurement_plan |-> JsonDumps(plan),
     created_at |-> t]

\* A project of the seed data: its document has a numeric contract_amount.
SeedProjectRow(t) ==
    ProjectColumns(<<"H","e","a">>, "In Progress", "2086/87",
                   [contract_amount |-> Some([number |-> 5]),
                    details_of_work |-> Some(<<"r","o","a","d">>),
                    contractor_name |-> Some(<<"A","c","o">>)], t)

\* project_statistics.project_id REFERENCES projects.id
StatisticsForeignKeyOk(row) == row.project_id \in projects

\* A variant without the unique constraint on review_id.
ReportInsertOk_no_unique(row) == row.project_id \in projects

\* citizen_reports.review_id UNIQUE, citizen_reports.project_id REFERENCES projects.id
ReportInsertOk(row) ==
    /\ row.project_id \in projects
    /\ \A i \in DOMAIN citizen_reports : citizen_reports[i].review_id # row.review_id

-----------------------------------------------------------------------------
(* The dictionaries the service returns *)

\* created_at.isoformat()
IsoFormat(t) == [iso |-> t]

\* The report dictionary built from a citizen_reports row.
FormatReport(report_row) ==
    [review_id |-> report_row.review_id,
     review_type |-> report_row.review_type,
     work_completed |-> report_row.work_completed,
     quality_rating |-> report_row.quality_rating,
     geolocation |-> IF report_row.geolocation # NULL
                     THEN JsonLoads(report_row.geolocation[1]) ELSE NULL,
     photo_urls |-> IF report_row.photo_urls # NULL
                    THEN JsonLoads(report_row.photo_urls[1]) ELSE << >>,
     verified |-> report_row.verified,
     timestamp |-> IsoFormat(report_row.created_at)]

\* The statistics dictionary built from a project_statistics row.
FormatStatistics(stats_row) ==
    [total_reviews |-> stats_row.total_reviews,
     work_completed_percentage |-> stats_row.work_completed_percentage,
     average_quality_rating |-> stats_row.average_quality_rating,
     reviews_with_images |-> stats_row.reviews_with_images,
     verified_reviews |-> stats_row.verified_reviews,
     review_type_breakdown |->
        [k \in {"Progress Update", "Quality Issue", "Completion Verification",
                "Delay Report", "Fraud Alert"} |->
            CASE k = "Progress Update" -> stats_row.progress_updates
              [] k = "Quality Issue" -> stats_row.quality_issues
              [] k = "Completion Verification" -> stats_row.completion_verifications
              [] k = "Delay Report" -> stats_row.delay_reports
              [] k = "Fraud Alert" -> stats_row.fraud_alerts]]

\* The dictionary returned when there is still no row after the recompute.
DefaultStatistics ==
    [total_reviews |-> 0,
     work_completed_percentage |-> Frac(0, 1),
     average_quality_rating |-> NULL,
     reviews_with_images |-> 0,
     verified_reviews |-> 0,
     review_type_breakdown |-> << >>]

\* A variant with ORDER BY created_at ASC.
get_project_reports_oldest_first(project_id) ==
    LET rows == SelectReports(citizen_reports, project_id)
        n == Len(rows)
        orders == {f \in [1 .. n -> 1 .. n] :
                     /\ \A i, j \in 1 .. n : i # j => f[i] # f[j]
                     /\ \A i, j \in 1 .. n :
                           i < j => rows[f[i]].created_at <= rows[f[j]].created_at}
    IN {[i \in 1 .. n |-> FormatReport(rows[f[i]])] : f \in orders}

\* get_project_reports: the lists it may return.  ORDER BY created_at DESC
\* leaves the order of rows with equal created_at to the store.
get_project_reports(project_id) ==
    LET rows == SelectReports(citizen_reports, project_id)
        n == Len(rows)
        orders == {f \in [1 .. n -> 1 .. n] :
                     /\ \A i, j \in 1 .. n : i # j => f[i] # f[j]
                     /\ \A i, j \in 1 .. n :
                           i < j => rows[f[i]].created_at >= rows[f[j]].created_at}
    IN {[i \in 1 .. n |-> FormatReport(rows[f[i]])] : f \in orders}

-----------------------------------------------------------------------------
(* Inputs *)

\* The projects that callers name: two stored ones and one that is not stored.
StoredProjects == {"P1", "P2"}
ProjectInputs == StoredProjects \cup {"PX"}

\* The projects named in the concurrent runs.
ConcurrentProjectInputs == {"P1", "PX"}

\* The review bodies that callers submit.
ReviewInputs ==
    {[review_type |-> QualityIssue, work_completed |-> FALSE,
      quality_rating |-> Some(4), geolocation |-> NULL, photo_urls |-> << >>],
     [review_type |-> ProgressUpdate, work_completed |-> TRUE,
      quality_rating |-> NULL, geolocation |-> NULL, photo_urls |-> <<"a.jpg">>],
     [review_type |-> OtherLabel, work_completed |-> TRUE,
      quality_rating |-> Some(5), geolocation |-> NULL, photo_urls |-> << >>]}

\* The review bodies of the concurrent runs.
ConcurrentReviewInputs ==
    {input \in ReviewInputs : input.review_type # OtherLabel}

\* Review ids are opaque: the ids already stored and one that is not.
ReviewIdInputs == {<<"REV", n>> : n \in 1 .. (Len(citizen_reports) + 1)}

-----------------------------------------------------------------------------
(* Workers: one request each at a time *)

\* op, project_id, reports and report_row are the locals of the code.  before
\* and repeat are bookkeeping: what the cached row of the project was like when
\* the call began, and whether the call began right after a finished
\* recalculate_project_statistics of the same project.
IdleCall ==
    [op |-> "none", project_id |-> "", reports |-> << >>, report_row |-> NULL,
     before |-> "none", repeat |-> FALSE]

NoResponse ==
    [worker |-> "none", op |-> "none", project_id |-> "", status |-> "none",
     value |-> NULL, at |-> "none", repeat |-> FALSE]

\* What the caller of worker w gets back: the value returned (status "ok") or
\* an exception (status "raised"), with the await the call was at.
Response(w, op, project_id, status, value, at, repeat) ==
    [worker |-> w, op |-> op, project_id |-> project_id, status |-> status,
     value |-> value, at |-> at, repeat |-> repeat]

\* The reports stored for a project, in insertion order.
ReportsOf(project_id) ==
    LET OfProject(r) == r.project_id = project_id IN SelectSeq(citizen_reports, OfProject)

\* The rows of a statistics table that belong to a project.
RowsIn(table, project_id) == {i \in DOMAIN table : table[i].project_id = project_id}
RowsOf(project_id) == RowsIn(project_statistics, project_id)

\* The cached statistics of a project equal a recompute over the reports stored now.
Fresh(project_id) ==
    /\ RowsOf(project_id) # {}
    /\ \A i \in RowsOf(project_id) :
          Derived(project_statistics[i]) = ComputeStatistics(ReportsOf(project_id))

CacheState(project_id) ==
    IF RowsOf(project_id) = {} THEN "missing"
    ELSE IF Fresh(project_id) THEN "fresh" ELSE "stale"

\* The step before this one ended a recalculate_project_statistics of worker w
\* for the same project.
RightAfterRecalculate(w, project_id) ==
    /\ response.worker = w
    /\ response.op = "recalculate_project_statistics"
    /\ response.project_id = project_id
    /\ response.status = "ok"

\* No call is in progress.
AllIdle == \A w \in Workers : pc[w] = "idle"

\* Worker w starts a call: every call in progress now has company.
Begin(w) ==
    solo' = [v \in Workers |->
                IF v = w THEN \A u \in Workers \ {w} : pc[u] = "idle"
                ELSE IF pc[v] # "idle" THEN FALSE ELSE solo[v]]

\* The call of worker w ends, returning value or raising.
Finish(w, status, value) ==
    /\ pc' = [pc EXCEPT ![w] = "idle"]
    /\ response' = Response(w, call[w].op, call[w].project_id, status, value,
                             pc[w], call[w].repeat)
    /\ call' = [call EXCEPT ![w] = IdleCall]

Init ==
    /\ projects = StoredProjects
    /\ project_rows = [p \in StoredProjects |-> SeedProjectRow(0)]
    /\ citizen_reports = << >>
    /\ project_statistics = << >>
    /\ now = 0
    /\ pc = [w \in Workers |-> "idle"]
    /\ call = [w \in Workers |-> IdleCall]
    /\ response = NoResponse
    /\ solo = [w \in Workers |-> TRUE]

\* The values of the INSERT of create_citizen_report.
ReportValues(review_id, project_id, input, t) ==
    [review_id |-> review_id,
     project_id |-> project_id,
     review_type |-> input.review_type,
     work_completed |-> input.work_completed,
     quality_rating |-> input.quality_rating,
     geolocation |-> IF DictTruthy(input.geolocation)
                     THEN Some(JsonDumps(input.geolocation)) ELSE NULL,
     photo_urls |-> Some(JsonDumps(input.photo_urls)),
     verified |-> FALSE,
     created_at |-> t]

\* create_citizen_report up to its INSERT ... RETURNING *.  A violated
\* constraint raises out of the call with no row stored.
create_citizen_report(w, review_id, project_id, input) ==
    LET row == ReportValues(review_id, project_id, input, now) IN
    /\ pc[w] = "idle"
    /\ IF ReportInsertOk(row)
       THEN /\ citizen_reports' = Append(citizen_reports, row)
            /\ pc' = [pc EXCEPT ![w] = "recalculate_fetch"]
            /\ call' = [call EXCEPT ![w] =
                          [op |-> "create_citizen_report", project_id |-> project_id,
                           reports |-> << >>, report_row |-> Some(row),
                           before |-> CacheState(project_id), repeat |-> FALSE]]
            /\ response' = NoResponse
       ELSE /\ pc' = pc
            /\ call' = call
            /\ response' = Response(w, "create_citizen_report", project_id, "raised",
                                     NULL, "idle", FALSE)
            /\ citizen_reports' = citizen_reports
    /\ Begin(w)
    /\ UNCHANGED <<projects, project_rows, project_statistics, now>>

\* An exception leaves the call: nothing in the service catches it.
Raise(w) == Finish(w, "raised", NULL)

\* A variant whose SELECT sees the table as it was before the call's insert.
recalculate_fetch_before_insert(w) ==
    /\ pc[w] = "recalculate_fetch"
    /\ call' = [call EXCEPT ![w].reports =
                   SelectSeq(SelectReports(citizen_reports, call[w].project_id),
                             LAMBDA r : call[w].report_row = NULL
                                        \/ r.review_id # call[w].report_row[1].review_id)]
    /\ pc' = [pc EXCEPT ![w] = "recalculate_upsert"]
    /\ response' = NoResponse
    /\ UNCHANGED <<projects, project_rows, citizen_reports, project_statistics, now, solo>>

\* recalculate_project_statistics, its SELECT of the project's reports.
recalculate_fetch(w) ==
    /\ pc[w] = "recalculate_fetch"
    /\ call' = [call EXCEPT ![w].reports =
                   SelectReports(citizen_reports, call[w].project_id)]
    /\ pc' = [pc EXCEPT ![w] = "recalculate_upsert"]
    /\ response' = NoResponse
    /\ UNCHANGED <<projects, project_rows, citizen_reports, project_statistics, now, solo>>

\* recalculate_project_statistics from the computation to its upsert, and the
\* return into the caller up to the caller's next await.
recalculate_upsert(w) ==
    LET row == StatisticsRow(call[w].project_id, ComputeStatistics(call[w].reports), now)
    IN
    /\ pc[w] = "recalculate_upsert"
    /\ IF StatisticsForeignKeyOk(row)
       THEN /\ project_statistics' = UpsertStatistics(project_statistics, row)
            /\ IF call[w].op = "create_citizen_report"
               THEN /\ pc' = [pc EXCEPT ![w] = "create_return"]
                    /\ call' = call /\ response' = NoResponse
               ELSE IF call[w].op = "get_project_statistics"
               THEN /\ pc' = [pc EXCEPT ![w] = "statistics_refetch"]
                    /\ call' = call /\ response' = NoResponse
               ELSE Finish(w, "ok", NULL)
       ELSE /\ Raise(w)
            /\ UNCHANGED project_statistics
    /\ UNCHANGED <<projects, project_rows, citizen_reports, now, solo>>

\* create_citizen_report after the recompute: the response from the row the
\* INSERT returned.
create_citizen_report_return(w) ==
    /\ pc[w] = "create_return"
    /\ Finish(w, "ok", Some(FormatReport(call[w].report_row[1])))
    /\ UNCHANGED <<projects, project_rows, citizen_reports, project_statistics, now, solo>>

\* A variant that recomputes on every read.
get_project_statistics_always(w, project_id) ==
    /\ pc[w] = "idle"
    /\ pc' = [pc EXCEPT ![w] = "recalculate_fetch"]
    /\ call' = [call EXCEPT ![w] =
                  [IdleCall EXCEPT !.op = "get_project_statistics",
                                   !.project_id = project_id]]
    /\ response' = NoResponse
    /\ Begin(w)
    /\ UNCHANGED <<projects, project_rows, citizen_reports, project_statistics, now>>

\* get_project_statistics up to its first SELECT: the cached row when there is
\* one, else on to the recompute.
get_project_statistics(w, project_id) ==
    LET stats_row == SelectStatistics(project_statistics, project_id) IN
    /\ pc[w] = "idle"
    /\ IF stats_row # NULL
       THEN /\ response' = Response(w, "get_project_statistics", project_id, "ok",
                                     Some(FormatStatistics(stats_row[1])), "idle", FALSE)
            /\ UNCHANGED <<pc, call>>
       ELSE /\ pc' = [pc EXCEPT ![w] = "recalculate_fetch"]
            /\ call' = [call EXCEPT ![w] =
                          [IdleCall EXCEPT !.op = "get_project_statistics",
                                           !.project_id = project_id]]
            /\ response' = NoResponse
    /\ Begin(w)
    /\ UNCHANGED <<projects, project_rows, citizen_reports, project_statistics, now>>

\* get_project_statistics after the recompute: the second SELECT and the return.
get_project_statistics_refetch(w) ==
    LET stats_row == SelectStatistics(project_statistics, call[w].project_id) IN
    /\ pc[w] = "statistics_refetch"
    /\ IF stats_row # NULL
       THEN Finish(w, "ok", Some(FormatStatistics(stats_row[1])))
       ELSE Finish(w, "ok", Some(DefaultStatistics))
    /\ UNCHANGED <<projects, project_rows, citizen_reports, project_statistics, now, solo>>

\* recalculate_project_statistics called on its own, up to its SELECT.
recalculate_project_statistics(w, project_id) ==
    /\ pc[w] = "idle"
    /\ pc' = [pc EXCEPT ![w] = "recalculate_upsert"]
    /\ call' = [call EXCEPT ![w] =
                  [IdleCall EXCEPT !.op = "recalculate_project_statistics",
                                   !.project_id = project_id,
                                   !.reports = SelectReports(citizen_reports, project_id),
                                   !.repeat = RightAfterRecalculate(w, project_id)]]
    /\ response' = NoResponse
    /\ Begin(w)
    /\ UNCHANGED <<projects, project_rows, citizen_reports, project_statistics, now>>

\* A variant in which the insert and the recompute are one transaction: the
\* failure takes the inserted row with it.
store_failure_rollback(w) ==
    /\ pc[w] \in {"recalculate_fetch", "recalculate_upsert", "statistics_refetch"}
    /\ Raise(w)
    /\ citizen_reports' =
          IF call[w].report_row = NULL THEN citizen_reports
          ELSE SelectSeq(citizen_reports,
                         LAMBDA r : r.review_id # call[w].report_row[1].review_id)
    /\ UNCHANGED <<projects, project_rows, project_statistics, now, solo>>

\* A query of the running call fails in the store (connection, timeout).
store_failure(w) ==
    /\ pc[w] \in {"recalculate_fetch", "recalculate_upsert", "statistics_refetch"}
    /\ Raise(w)
    /\ UNCHANGED <<projects, project_rows, citizen_reports, project_statistics, now, solo>>

\* Time passes.
Tick ==
    /\ now < MaxClock
    /\ now' = now + 1
    /\ response' = NoResponse
    /\ UNCHANGED <<projects, project_rows, citizen_reports, project_statistics, pc, call, solo>>

-----------------------------------------------------------------------------
(* migrate_database.py: import_mock_data *)

\* dict.get(key, default), an absent key being NULL.
GetOr(entry, default) == IF entry # NULL THEN entry[1] ELSE default

\* The reports of the seed data: the shape of app/data/mock_data.py, which
\* carries neither type nor rating nor photo_urls, and two richer ones.
MockReports ==
    {[review_id |-> NULL, review_type |-> NULL, work_completed |-> NULL,
      quality_rating |-> NULL, geolocation |-> Some([lat |-> 27, lng |-> 86]),
      photo_urls |-> NULL, verified |-> Some(FALSE), timestamp |-> 0],
     [review_id |-> NULL, review_type |-> Some(QualityIssue), work_completed |-> Some(TRUE),
      quality_rating |-> Some(4), geolocation |-> NULL,
      photo_urls |-> Some(<<"a.jpg">>), verified |-> Some(TRUE), timestamp |-> 0],
     [review_id |-> NULL, review_type |-> Some(OtherLabel), work_completed |-> Some(FALSE),
      quality_rating |-> Some(5), geolocation |-> NULL,
      photo_urls |-> Some(<< >>), verified |-> Some(FALSE), timestamp |-> 0]}

MockReportLists == UNION {[1 .. n -> MockReports] : n \in 0 .. MaxMockReports}

\* mock_projects: the stored projects, each with a list of reports.
MockProjects ==
    {<<[id |-> "P1", citizen_reports |-> r1], [id |-> "P2", citizen_reports |-> r2]>> :
        r1 \in MockReportLists, r2 \in MockReportLists}

\* The values of the INSERT INTO citizen_reports for report i of a project.
ImportReportRow(project_data, i) ==
    LET report == project_data.citizen_reports[i] IN
    [review_id |-> GetOr(report.review_id, <<project_data.id, i>>),
     project_id |-> project_data.id,
     review_type |-> GetOr(report.review_type, ProgressUpdate),
     work_completed |-> GetOr(report.work_completed, FALSE),
     quality_rating |-> report.quality_rating,
     geolocation |-> Some(JsonDumps(report.geolocation)),
     photo_urls |-> Some(JsonDumps(GetOr(report.photo_urls, << >>))),
     verified |-> GetOr(report.verified, FALSE),
     created_at |-> report.timestamp]

\* INSERT INTO citizen_reports ... ON CONFLICT (review_id) DO UPDATE SET ...
UpsertReport(table, row) ==
    IF \E i \in DOMAIN table : table[i].review_id = row.review_id
    THEN [i \in DOMAIN table |->
            IF table[i].review_id = row.review_id
            THEN [table[i] EXCEPT !.review_type = row.review_type,
                                  !.work_completed = row.work_completed,
                                  !.quality_rating = row.quality_rating,
                                  !.geolocation = row.geolocation,
                                  !.photo_urls = row.photo_urls,
                                  !.verified = row.verified]
            ELSE table[i]]
    ELSE Append(table, row)

RECURSIVE ImportProjectReports(_, _, _)
ImportProjectReports(table, project_data, i) ==
    IF i > Len(project_data.citizen_reports) THEN table
    ELSE ImportProjectReports(UpsertReport(table, ImportReportRow(project_data, i)),
                              project_data, i + 1)

RECURSIVE ImportReports(_, _)
ImportReports(table, mock_projects) ==
    IF mock_projects = << >> THEN table
    ELSE ImportReports(ImportProjectReports(table, Head(mock_projects), 1),
                       Tail(mock_projects))

progress_updates_key == <<"p","r","o","g","r","e","s","s","_","u","p","d","a","t","e","s">>
quality_issues_key == <<"q","u","a","l","i","t","y","_","i","s","s","u","e","s">>
completion_verifications_key ==
    <<"c","o","m","p","l","e","t","i","o","n","_","v","e","r","i","f","i","c","a","t","i","o","n","s">>
delay_reports_key == <<"d","e","l","a","y","_","r","e","p","o","r","t","s">>
fraud_alerts_key == <<"f","r","a","u","d","_","a","l","e","r","t","s">>

\* if review_type in review_type_counts: the key of the counter incremented.
ImportTypeBucket(review_type) ==
    LET t == NormalizeType(review_type) IN
    IF t = progress_updates_key THEN "progress_updates"
    ELSE IF t = quality_issues_key THEN "quality_issues"
    ELSE IF t = completion_verifications_key THEN "completion_verifications"
    ELSE IF t = delay_reports_key THEN "delay_reports"
    ELSE IF t = fraud_alerts_key THEN "fraud_alerts"
    ELSE "none"

RECURSIVE import_ratings(_)
import_ratings(reports) ==
    IF reports = << >> THEN << >>
    ELSE (IF RatingTruthy(Head(reports).quality_rating)
          THEN <<Head(reports).quality_rating[1]>> ELSE << >>)
         \o import_ratings(Tail(reports))

ImportTypeCount(reports, key) ==
    Cardinality({i \in DOMAIN reports :
        ImportTypeBucket(GetOr(reports[i].review_type, ProgressUpdate)) = key})

\* The statistics import_mock_data computes from a project's seed reports.
ImportStatistics(reports) ==
    LET completed == Cardinality({i \in DOMAIN reports :
                                     GetOr(reports[i].work_completed, FALSE)})
    IN
    [total_reviews |-> Len(reports),
     work_completed_percentage |->
        IF Len(reports) > 0 THEN Frac(completed * 100, Len(reports)) ELSE Frac(0, 1),
     average_quality_rating |->
        IF import_ratings(reports) # << >>
        THEN Some(Frac(SumSeq(import_ratings(reports)), Len(import_ratings(reports))))
        ELSE NULL,
     reviews_with_images |->
        Cardinality({i \in DOMAIN reports : Len(GetOr(reports[i].photo_urls, << >>)) > 0}),
     verified_reviews |->
        Cardinality({i \in DOMAIN reports : GetOr(reports[i].verified, FALSE)}),
     progress_updates |-> ImportTypeCount(reports, "progress_updates"),
     quality_issues |-> ImportTypeCount(reports, "quality_issues"),
     completion_verifications |-> ImportTypeCount(reports, "completion_verifications"),
     delay_reports |-> ImportTypeCount(reports, "delay_reports"),
     fraud_alerts |-> ImportTypeCount(reports, "fraud_alerts")]

RECURSIVE ImportAllStatistics(_, _, _)
ImportAllStatistics(table, mock_projects, t) ==
    IF mock_projects = << >> THEN table
    ELSE ImportAllStatistics(
            UpsertStatistics(table,
                StatisticsRow(Head(mock_projects).id,
                              ImportStatistics(Head(mock_projects).citizen_reports), t)),
            Tail(mock_projects), t)

\* create_tables: every table empty.
InitEmpty ==
    /\ projects = {}
    /\ project_rows = << >>
    /\ citizen_reports = << >>
    /\ project_statistics = << >>
    /\ now = 0
    /\ pc = [w \in Workers |-> "idle"]
    /\ call = [w \in Workers |-> IdleCall]
    /\ response = NoResponse
    /\ solo = [w \in Workers |-> TRUE]

\* import_mock_data on the empty tables: the projects, their reports, then the
\* statistics of each project.
import_mock_data(mock_projects) ==
    /\ projects = {}
    /\ \A w \in Workers : pc[w] = "idle"
    /\ projects' = {mock_projects[i].id : i \in DOMAIN mock_projects}
    /\ project_rows' = [p \in {mock_projects[i].id : i \in DOMAIN mock_projects} |->
                           SeedProjectRow(now)]
    /\ citizen_reports' = ImportReports(citizen_reports, mock_projects)
    /\ project_statistics' = ImportAllStatistics(project_statistics, mock_projects, now)
    /\ response' = NoResponse
    /\ UNCHANGED <<now, pc, call, solo>>

-----------------------------------------------------------------------------
(* Concurrent requests against a store that may fail *)

Next ==
    \E w \in Workers :
        \/ /\ Len(citizen_reports) < MaxReports
           /\ \E id \in ReviewIdInputs, p \in ConcurrentProjectInputs,
                 input \in ConcurrentReviewInputs :
                 create_citizen_report(w, id, p, input)
        \/ recalculate_fetch(w)
        \/ recalculate_upsert(w)
        \/ create_citizen_report_return(w)
        \/ \E p \in ConcurrentProjectInputs : get_project_statistics(w, p)
        \/ get_project_statistics_refetch(w)
        \/ \E p \in ConcurrentProjectInputs : recalculate_project_statistics(w, p)
        \/ store_failure(w)

Spec == Init /\ [][Next]_vars

-----------------------------------------------------------------------------
(* One request at a time against a store that does not fail *)

SeqNext ==
    \/ /\ Len(citizen_reports) < MaxSeqReports
       /\ \E id \in ReviewIdInputs, p \in ProjectInputs, input \in ReviewInputs :
             create_citizen_report("w1", id, p, input)
    \/ recalculate_fetch("w1")
    \/ recalculate_upsert("w1")
    \/ create_citizen_report_return("w1")
    \/ \E p \in ProjectInputs : get_project_statistics("w1", p)
    \/ get_project_statistics_refetch("w1")
    \/ \E p \in ProjectInputs : recalculate_project_statistics("w1", p)
    \/ Tick

SeqSpec == Init /\ [][SeqNext]_vars

-----------------------------------------------------------------------------
(* Two submissions for one project, one per worker, nothing failing *)

RaceReviewId(w) == <<"REV", IF w = "w1" THEN 1 ELSE 2>>

RaceNext ==
    \E w \in Workers :
        \/ /\ \A i \in DOMAIN citizen_reports :
                 citizen_reports[i].review_id # RaceReviewId(w)
           /\ \E input \in ReviewInputs :
                 create_citizen_report(w, RaceReviewId(w), "P1", input)
        \/ recalculate_fetch(w)
        \/ recalculate_upsert(w)
        \/ create_citizen_report_return(w)

RaceSpec == Init /\ [][RaceNext]_vars

-----------------------------------------------------------------------------
(* The seeding script on an empty database, then recomputes *)

ImportNext ==
    \/ \E mock_projects \in MockProjects : import_mock_data(mock_projects)
    \/ \E p \in projects : recalculate_project_statistics("w1", p)
    \/ recalculate_upsert("w1")

ImportSpec == InitEmpty /\ [][ImportNext]_vars

-----------------------------------------------------------------------------
(* recalculate_project_statistics over a given citizen_reports table *)

\* The labels, completion flags and ratings of the rows the table is given.
StoredLabels ==
    {ProgressUpdate, QualityIssue, QualityIssueUpper, QualityIssueLeading,
     QualityIssueDouble, ProgressUpdateTrailing, OtherLabel}
StoredRatings == {NULL, Some(2), Some(5)}

StoredRow(i, label, completed, rating) ==
    [review_id |-> <<"REV", i>>,
     project_id |-> "P1",
     review_type |-> label,
     work_completed |-> completed,
     quality_rating |-> rating,
     geolocation |-> NULL,
     photo_urls |-> Some(JsonDumps(<< >>)),
     verified |-> FALSE,
     created_at |-> 0]

StoredTables(n) ==
    {[i \in 1 .. n |-> StoredRow(i, f[i][1], f[i][2], f[i][3])] :
        f \in [1 .. n -> StoredLabels \X BOOLEAN \X StoredRatings]}

InitStored ==
    /\ projects = StoredProjects
    /\ project_rows = [p \in StoredProjects |-> SeedProjectRow(0)]
    /\ \E n \in 0 .. MaxStoredReports : citizen_reports \in StoredTables(n)
    /\ project_statistics = << >>
    /\ now = 0
    /\ pc = [w \in Workers |-> "idle"]
    /\ call = [w \in Workers |-> IdleCall]
    /\ response = NoResponse
    /\ solo = [w \in Workers |-> TRUE]

StoredNext ==
    \/ /\ project_statistics = << >>
       /\ recalculate_project_statistics("w1", "P1")
    \/ recalculate_upsert("w1")

StoredSpec == InitStored /\ [][StoredNext]_vars

-----------------------------------------------------------------------------
(* routers/reviews.py: the review endpoints, one request at a time, each
   handler run to its response *)

MaxApiReports == 1

MinReviewTextLength == 10
MinQualityRating == 1
MaxQualityRating == 5
MaxImages == 5

\* class ReviewType
ReviewTypeValues ==
    {ProgressUpdate, QualityIssue, CompletionVerification, DelayReport, FraudAlert}

\* validate_image: the extension of the file name is an allowed one.
ValidImage(filename) == filename \in {"a.jpg", "b.png"}

\* A form that passes validation; of review_text only its length.
GoodForm ==
    [review_type |-> QualityIssue,
     review_text_length |-> MinReviewTextLength,
     work_completed |-> TRUE,
     quality_rating |-> NULL,
     images |-> <<"a.jpg">>]

\* The forms posted to the submit endpoint: the good one with each rating at
\* the ends of the range, and forms with one or two fields out of bounds.
FormInputs ==
    {[GoodForm EXCEPT !.quality_rating = q] :
        q \in {NULL, Some(MinQualityRating), Some(MaxQualityRating)}}
    \cup {[GoodForm EXCEPT !.quality_rating = q] :
        q \in {Some(MinQualityRating - 1), Some(MaxQualityRating + 1)}}
    \cup {[GoodForm EXCEPT !.review_text_length = MinReviewTextLength - 1,
                          !.quality_rating = q] :
        q \in {NULL, Some(MaxQualityRating + 1)}}
    \cup {[GoodForm EXCEPT !.review_type = OtherLabel]}
    \cup {[GoodForm EXCEPT !.images = i] :
        i \in {<< >>, <<"c.exe">>,
               <<"a.jpg", "a.jpg", "a.jpg", "a.jpg", "a.jpg", "a.jpg">>}}

\* The declarations of the form fields (ReviewType, min_length=10, ge=1, le=5):
\* the fields of the form that violate theirs.
FormErrors(form) ==
    (IF form.review_type \in ReviewTypeValues THEN {} ELSE {"review_type"})
    \cup (IF form.review_text_length >= MinReviewTextLength THEN {} ELSE {"review_text"})
    \cup (IF \/ form.quality_rating = NULL
             \/ /\ form.quality_rating[1] >= MinQualityRating
                /\ form.quality_rating[1] <= MaxQualityRating
          THEN {} ELSE {"quality_rating"})

FormValid(form) == FormErrors(form) = {}

\* A variant in which no project is ever missing.
get_project_by_id_always_found(project_id) ==
    Some([id |-> project_id, citizen_reports |-> get_project_reports(project_id)])

\* DatabaseService.get_project_by_id: None when projects has no such row.
get_project_by_id(project_id) ==
    IF project_id \in projects
    THEN Some([id |-> project_id, citizen_reports |-> get_project_reports(project_id)])
    ELSE NULL

\* DatabaseService.get_specific_review: the review of that project with that id.
get_specific_review(project_id, review_id) ==
    LET found == {i \in DOMAIN citizen_reports :
                    /\ citizen_reports[i].project_id = project_id
                    /\ citizen_reports[i].review_id = review_id}
    IN IF found # {} THEN Some(FormatReport(citizen_reports[CHOOSE i \in found : TRUE]))
       ELSE NULL

\* The response of an endpoint: a status code with a body or a detail.
Reply(w, op, project_id, status, value) ==
    /\ response' = Response(w, op, project_id, status, value, "idle", FALSE)
    /\ UNCHANGED <<projects, project_rows, now, pc, call, solo>>

\* recalculate_project_statistics run to completion on the given tables.
Recalculated(reports_table, statistics_table, project_id) ==
    UpsertStatistics(statistics_table,
        StatisticsRow(project_id,
                      ComputeStatistics(SelectReports(reports_table, project_id)), now))

\* A variant whose form fields carry no constraints.
submit_review_with_images_unvalidated(w, review_id, project_id, form) ==
    LET op == "submit_review_with_images"
        input == [review_type |-> form.review_type,
                  work_completed |-> form.work_completed,
                  quality_rating |-> form.quality_rating,
                  geolocation |-> NULL,
                  photo_urls |-> form.images]
        row == ReportValues(review_id, project_id, input, now)
        stored == Append(citizen_reports, row)
    IN
    /\ AllIdle
    /\ IF get_project_by_id(project_id) = NULL \/ ~ReportInsertOk(row)
       THEN /\ Reply(w, op, project_id, "404", Some("project"))
            /\ UNCHANGED <<citizen_reports, project_statistics>>
       ELSE /\ citizen_reports' = stored
            /\ project_statistics' = Recalculated(stored, project_statistics, project_id)
            /\ Reply(w, op, project_id, "200", Some(FormatReport(row)))

\* POST /{project_id}/submit.  The form is validated before the handler runs;
\* the handler checks the project, then the images, then stores the review.
submit_review_with_images(w, review_id, project_id, form) ==
    LET op == "submit_review_with_images"
        input == [review_type |-> form.review_type,
                  work_completed |-> form.work_completed,
                  quality_rating |-> form.quality_rating,
                  geolocation |-> NULL,
                  photo_urls |-> form.images]
        row == ReportValues(review_id, project_id, input, now)
        stored == Append(citizen_reports, row)
    IN
    /\ AllIdle
    /\ IF ~FormValid(form)
       THEN /\ Reply(w, op, project_id, "422", Some(FormErrors(form)))
            /\ UNCHANGED <<citizen_reports, project_statistics>>
       ELSE IF get_project_by_id(project_id) = NULL
       THEN /\ Reply(w, op, project_id, "404", Some("project"))
            /\ UNCHANGED <<citizen_reports, project_statistics>>
       ELSE IF Len(form.images) > MaxImages
                 \/ \E i \in DOMAIN form.images : ~ValidImage(form.images[i])
       THEN /\ Reply(w, op, project_id, "400", NULL)
            /\ UNCHANGED <<citizen_reports, project_statistics>>
       ELSE IF ~ReportInsertOk(row)
       THEN /\ Reply(w, op, project_id, "500", NULL)
            /\ UNCHANGED <<citizen_reports, project_statistics>>
       ELSE /\ citizen_reports' = stored
            /\ project_statistics' = Recalculated(stored, project_statistics, project_id)
            /\ Reply(w, op, project_id, "200", Some(FormatReport(row)))

\* GET /{project_id}/review/{review_id}
reviews_get_specific_review(w, project_id, review_id) ==
    LET op == "get_specific_review"
        review == get_specific_review(project_id, review_id)
    IN
    /\ AllIdle
    /\ IF get_project_by_id(project_id) = NULL
       THEN Reply(w, op, project_id, "404", Some("project"))
       ELSE IF review = NULL
       THEN Reply(w, op, project_id, "404", Some("review"))
       ELSE Reply(w, op, project_id, "200", review)
    /\ UNCHANGED <<citizen_reports, project_statistics>>

\* GET /{project_id}/all
reviews_get_all_reviews(w, project_id) ==
    LET op == "get_all_reviews" IN
    /\ AllIdle
    /\ IF get_project_by_id(project_id) = NULL
       THEN Reply(w, op, project_id, "404", Some("project"))
       ELSE \E reviews \in get_project_reports(project_id) :
               Reply(w, op, project_id, "200",
                     Some([total_reviews |-> Len(reviews), reviews |-> reviews]))
    /\ UNCHANGED <<citizen_reports, project_statistics>>

\* The body of the summary built from the statistics dictionary.
SummaryBody(stats) ==
    IF stats.total_reviews = 0
    THEN [total_reviews |-> 0, message |-> "No reviews yet for this project"]
    ELSE [total_reviews |-> stats.total_reviews,
          work_completed_percentage |-> stats.work_completed_percentage,
          average_quality_rating |-> stats.average_quality_rating,
          review_type_breakdown |-> stats.review_type_breakdown,
          reviews_with_images |-> stats.reviews_with_images,
          verified_reviews |-> stats.verified_reviews]

\* GET /{project_id}/summary: get_project_statistics, recompute included when
\* the project has no row, then the summary of what it returned.
reviews_get_project_review_summary(w, project_id) ==
    LET op == "get_project_review_summary"
        cached == SelectStatistics(project_statistics, project_id)
        after == IF cached = NULL
                 THEN Recalculated(citizen_reports, project_statistics, project_id)
                 ELSE project_statistics
        stats_row == IF cached = NULL THEN SelectStatistics(after, project_id) ELSE cached
        stats == IF stats_row # NULL THEN FormatStatistics(stats_row[1])
                 ELSE DefaultStatistics
    IN
    /\ AllIdle
    /\ IF get_project_by_id(project_id) = NULL
       THEN /\ Reply(w, op, project_id, "404", Some("project"))
            /\ UNCHANGED project_statistics
       ELSE /\ project_statistics' = after
            /\ Reply(w, op, project_id, "200", Some(SummaryBody(stats)))
    /\ UNCHANGED citizen_reports

ApiNext ==
    \/ \E id \in ReviewIdInputs, p \in ProjectInputs, form \in FormInputs :
          /\ \/ Len(citizen_reports) < MaxApiReports
             \/ ~FormValid(form)
             \/ p \notin projects
             \/ \E i \in DOMAIN citizen_reports : citizen_reports[i].review_id = id
          /\ submit_review_with_images("w1", id, p, form)
    \/ \E id \in ReviewIdInputs, p \in ProjectInputs :
          reviews_get_specific_review("w1", p, id)
    \/ \E p \in ProjectInputs : reviews_get_all_reviews("w1", p)
    \/ \E p \in ProjectInputs : reviews_get_project_review_summary("w1", p)

ApiSpec == Init /\ [][ApiNext]_vars

-----------------------------------------------------------------------------
(* get_all_projects: the filtered, paginated query over projects *)

\* text ILIKE pattern: % is any run of characters, _ any one character, every
\* other character itself in either letter case.
RECURSIVE ILike(_, _)
ILike(text, pattern) ==
    IF pattern = << >> THEN text = << >>
    ELSE IF Head(pattern) = "%"
    THEN ILike(text, Tail(pattern)) \/ (text # << >> /\ ILike(Tail(text), pattern))
    ELSE /\ text # << >>
         /\ Head(pattern) = "_" \/ LowerChar(Head(pattern)) = LowerChar(Head(text))
         /\ ILike(Tail(text), Tail(pattern))

\* f"%{value}%"
Wrapped(value) == <<"%">> \o value \o <<"%">>

\* p.procurement_plan->>key: the text of the key, NULL when the key is absent.
PlanText(row, key) == JsonLoads(row.procurement_plan)[key]

\* CAST(text AS FLOAT) fails on a text that is not a number.
CastFails(amount) == amount # NULL /\ "number" \notin DOMAIN amount[1]

\* A filter argument as a condition: neither None nor "" nor 0.
StrTruthy(s) == s # NULL /\ s[1] # << >>
NameTruthy(s) == s # NULL /\ s[1] # ""
NumTruthy(x) == x # NULL /\ x[1] # 0

\* A nullable text ILIKE a pattern: NULL is no match.
TextILike(text, pattern) == text # NULL /\ ILike(text[1], pattern)

\* The conjuncts of the WHERE clause that do not cast.
PlainConjuncts(row, filters) ==
    /\ StrTruthy(filters.ministry) =>
          ILike(row.ministry, Wrapped(filters.ministry[1]))
    /\ NameTruthy(filters.status) => row.status = filters.status[1]
    /\ NameTruthy(filters.fiscal_year) => row.fiscal_year = filters.fiscal_year[1]
    /\ StrTruthy(filters.search) =>
          \/ ILike(row.ministry, Wrapped(filters.search[1]))
          \/ TextILike(PlanText(row, "details_of_work"), Wrapped(filters.search[1]))
          \/ TextILike(PlanText(row, "contractor_name"), Wrapped(filters.search[1]))

\* The conjuncts that cast the contract amount, on a row whose cast succeeds;
\* a comparison with NULL is not true.
AmountConjuncts(row, filters) ==
    LET amount == PlanText(row, "contract_amount") IN
    /\ NumTruthy(filters.min_amount) =>
          amount # NULL /\ amount[1].number >= filters.min_amount[1]
    /\ NumTruthy(filters.max_amount) =>
          amount # NULL /\ amount[1].number <= filters.max_amount[1]

AmountFiltered(filters) == NumTruthy(filters.min_amount) \/ NumTruthy(filters.max_amount)

\* A variant that joins the count of verified reviews.
ReviewCount_verified(project_id) ==
    LET stats_row == SelectStatistics(project_statistics, project_id) IN
    IF stats_row = NULL THEN 0 ELSE stats_row[1].verified_reviews

\* COALESCE(ps.total_reviews, 0) of the LEFT JOIN, then `or 0`.
ReviewCount(project_id) ==
    LET stats_row == SelectStatistics(project_statistics, project_id) IN
    IF stats_row = NULL THEN 0 ELSE stats_row[1].total_reviews

\* The project dictionary built from a row of the query.
FormatProject(project_id) ==
    [id |-> project_id,
     fiscal_year |-> project_rows[project_id].fiscal_year,
     ministry |-> project_rows[project_id].ministry,
     procurement_plan |-> JsonLoads(project_rows[project_id].procurement_plan),
     status |-> project_rows[project_id].status,
     citizen_reports_count |-> ReviewCount(project_id)]

\* ORDER BY p.created_at DESC: the orders the store may return the ids in.
OrderedByCreation(ids) ==
    {s \in [1 .. Cardinality(ids) -> ids] :
        /\ \A i, j \in DOMAIN s : i # j => s[i] # s[j]
        /\ \A i, j \in DOMAIN s :
              i < j => project_rows[s[i]].created_at >= project_rows[s[j]].created_at}

\* A variant that counts the offset in pages instead of rows.
Page_offset_in_pages(rows, limit, offset) ==
    SubSeq(rows, offset * limit + 1,
           IF (offset + 1) * limit < Len(rows) THEN (offset + 1) * limit ELSE Len(rows))

\* LIMIT :limit OFFSET :offset
Page(rows, limit, offset) ==
    SubSeq(rows, offset + 1,
           IF offset + limit < Len(rows) THEN offset + limit ELSE Len(rows))

\* The projects that the WHERE clause keeps.
MatchedProjects(filters) ==
    {p \in projects :
        /\ PlainConjuncts(project_rows[p], filters)
        /\ AmountFiltered(filters) =>
              /\ ~CastFails(PlanText(project_rows[p], "contract_amount"))
              /\ AmountConjuncts(project_rows[p], filters)}

\* The answer of a get_all_projects call, with the arguments of the call.
ProjectsReply(w, filters, limit, offset, status, value) ==
    Response(w, "get_all_projects", "", status, value, "idle", FALSE)
       @@ [filters |-> filters, limit |-> limit, offset |-> offset]

\* get_all_projects.  The store evaluates the conjuncts of the WHERE clause in
\* an order of its choosing: a row whose cast fails aborts the query when the
\* row passes the other conjuncts, and may abort it when it does not.
get_all_projects(w, filters, limit, offset) ==
    LET failing == {p \in projects :
                      CastFails(PlanText(project_rows[p], "contract_amount"))}
    IN
    /\ AllIdle
    /\ \/ /\ AmountFiltered(filters)
          /\ failing # {}
          /\ response' = ProjectsReply(w, filters, limit, offset, "raised", NULL)
       \/ /\ AmountFiltered(filters) =>
                \A p \in failing : ~PlainConjuncts(project_rows[p], filters)
          /\ \E ids \in OrderedByCreation(MatchedProjects(filters)) :
                response' = ProjectsReply(w, filters, limit, offset, "ok",
                    Some([i \in DOMAIN Page(ids, limit, offset) |->
                             FormatProject(Page(ids, limit, offset)[i])]))
    /\ UNCHANGED <<projects, project_rows, citizen_reports, project_statistics,
                   now, pc, call, solo>>

\* The rows the projects table is given, and the filters callers pass.
SearchProjects == {"P1", "P2"}
SearchMinistries == {<<"H","e","a">>, <<"E","d","u">>}
SearchStatuses == {"Completed", "Delayed"}
SearchAmounts == {NULL, Some([number |-> 5]), Some([number |-> 9]), Some([text |-> "n/a"])}
SearchContractors == {<<"H","e">>, <<"x">>}

SearchRows ==
    {ProjectColumns(m, s, "2086/87",
                    [contract_amount |-> a,
                     details_of_work |-> Some(<<"r","o","a","d">>),
                     contractor_name |-> Some(c)], 0) :
        m \in SearchMinistries, s \in SearchStatuses, a \in SearchAmounts,
        c \in SearchContractors}

FilterInputs ==
    [ministry : {NULL, Some(<<"h","e">>), Some(<<"_">>)},
     status : {NULL, Some("Completed")},
     fiscal_year : {NULL, Some("2086/87"), Some("2087/88")},
     min_amount : {NULL, Some(0), Some(5)},
     max_amount : {NULL, Some(0), Some(5)},
     search : {NULL, Some(<<"H","E">>), Some(<<"%">>)}]

\* (limit, offset): the defaults, and the second page of pages of one row.
PageInputs == {<<100, 0>>, <<1, 1>>}

\* The projects are inserted one after the other: P2 is the more recent.
InitSearch ==
    /\ projects = SearchProjects
    /\ project_rows \in
          {[p \in SearchProjects |->
              [rows[p] EXCEPT !.created_at = IF p = "P1" THEN 0 ELSE 1]] :
           rows \in [SearchProjects -> SearchRows]}
    /\ citizen_reports = << >>
    /\ project_statistics = << >>
    /\ now = 1
    /\ pc = [w \in Workers |-> "idle"]
    /\ call = [w \in Workers |-> IdleCall]
    /\ response = NoResponse
    /\ solo = [w \in Workers |-> TRUE]

\* One query on each table.
SearchNext ==
    /\ response = NoResponse
    /\ \E filters \in FilterInputs, page \in PageInputs :
          get_all_projects("w1", filters, page[1], page[2])

SearchSpec == InitSearch /\ [][SearchNext]_vars

-----------------------------------------------------------------------------
(* get_all_projects page by page over a table that does not change *)

PageProjects == {"P1", "P2", "P3"}

\* Rows that differ in ministry and in creation time; two may share a time.
PageRows ==
    {ProjectColumns(m, "Completed", "2086/87",
                    [contract_amount |-> Some([number |-> 5]),
                     details_of_work |-> Some(<<"r","o","a","d">>),
                     contractor_name |-> Some(<<"x">>)], t) :
        m \in SearchMinistries, t \in 0 .. 2}

NoFilters ==
    [ministry |-> NULL, status |-> NULL, fiscal_year |-> NULL,
     min_amount |-> NULL, max_amount |-> NULL, search |-> NULL]

PageFilters == {NoFilters, [NoFilters EXCEPT !.ministry = Some(<<"h","e">>)]}

\* (limit, offset): pages of one row, of two rows, and the default limit.
PageArguments == {1, 2, 100} \X (0 .. 3)

InitPage ==
    /\ projects = PageProjects
    /\ project_rows \in [PageProjects -> PageRows]
    /\ citizen_reports = << >>
    /\ project_statistics = << >>
    /\ now = 2
    /\ pc = [w \in Workers |-> "idle"]
    /\ call = [w \in Workers |-> IdleCall]
    /\ response = NoResponse
    /\ solo = [w \in Workers |-> TRUE]

\* Any number of queries, one after the other.
PageNext ==
    \E filters \in PageFilters, page \in PageArguments :
       get_all_projects("w1", filters, page[1], page[2])

PageSpec == InitPage /\ [][PageNext]_vars

-----------------------------------------------------------------------------
(* Submissions one at a time, and the project list between them *)

CountNext ==
    \/ /\ Len(citizen_reports) < MaxSeqReports
       /\ \E id \in ReviewIdInputs, p \in ProjectInputs, input \in ReviewInputs :
             create_citizen_report("w1", id, p, input)
    \/ recalculate_fetch("w1")
    \/ recalculate_upsert("w1")
    \/ create_citizen_report_return("w1")
    \/ get_all_projects("w1", NoFilters, 100, 0)

CountSpec == Init /\ [][CountNext]_vars

-----------------------------------------------------------------------------
(* Submissions with and without location and photographs, one at a time *)

\* geolocation: None, the empty dictionary, a position.
GeolocationInputs == {NULL, Some(<< >>), Some([lat |-> 27, lng |-> 85])}

PhotoInputs == {<< >>, <<"a.jpg">>, <<"a.jpg", "b.png">>}

DocumentInputs ==
    {[review_type |-> ProgressUpdate, work_completed |-> TRUE, quality_rating |-> NULL,
      geolocation |-> g, photo_urls |-> u] :
        g \in GeolocationInputs, u \in PhotoInputs}

RoundTripNext ==
    \/ /\ Len(citizen_reports) < MaxSeqReports
       /\ \E id \in ReviewIdInputs, p \in ProjectInputs, input \in DocumentInputs :
             create_citizen_report("w1", id, p, input)
    \/ recalculate_fetch("w1")
    \/ recalculate_upsert("w1")
    \/ create_citizen_report_return("w1")

RoundTripSpec == Init /\ [][RoundTripNext]_vars

-----------------------------------------------------------------------------
(* Properties *)

\* C1: once every call of a single-threaded sequence has run to completion,
\* the total_reviews of each project's statistics row equals the number of
\* citizen_reports rows of that project (a project without a row has none).
C1_TotalReviewsMatchesCount ==
    AllIdle =>
        \A p \in projects :
            /\ \A i \in RowsOf(p) : project_statistics[i].total_reviews = Len(ReportsOf(p))
            /\ RowsOf(p) = {} => ReportsOf(p) = << >>

C1_Witness ==
    /\ AllIdle
    /\ Len(ReportsOf("P1")) = 1
    /\ Len(ReportsOf("P2")) = 1
    /\ \E i \in RowsOf("P1") : project_statistics[i].total_reviews = 1
    /\ \E i \in RowsOf("P2") : project_statistics[i].total_reviews = 1

\* C2: the statistics row that import_mock_data writes for a project equals,
\* derived field by derived field, the recompute over the reports it stored.
C2_ImportedStatisticsFresh == \A p \in projects : Fresh(p)

\* C3: when two submissions for one project race, both end, and the
\* statistics row is then the recompute over the reports as they were after
\* the first or after the second insert: stale at worst, never anything else.
C3_RaceLeavesEarlierSnapshot ==
    (AllIdle /\ Len(ReportsOf("P1")) = 2) =>
        /\ Cardinality(RowsOf("P1")) = 1
        /\ \A i \in RowsOf("P1") :
              \E k \in {1, 2} :
                 Derived(project_statistics[i]) =
                    ComputeStatistics(SubSeq(ReportsOf("P1"), 1, k))

C3_Witness ==
    /\ AllIdle
    /\ Len(ReportsOf("P1")) = 2
    /\ \E i \in RowsOf("P1") : project_statistics[i].total_reviews < Len(ReportsOf("P1"))

\* C4: every statistics row holds the complete result of one recompute over
\* one snapshot of its project's reports (reports are only ever appended, so
\* a snapshot is a prefix of the stored ones), never a mix of two.
C4_RowIsOneRecompute ==
    \A i \in DOMAIN project_statistics :
        LET stored == ReportsOf(project_statistics[i].project_id) IN
        \E k \in 0 .. Len(stored) :
            Derived(project_statistics[i]) = ComputeStatistics(SubSeq(stored, 1, k))

C4_Witness ==
    /\ \A w \in Workers : pc[w] = "create_return" /\ call[w].project_id = "P1"
    /\ call["w1"].reports # call["w2"].reports
    /\ RowsOf("P1") # {}

UniqueStatistics(table) ==
    \A i, j \in DOMAIN table : table[i].project_id = table[j].project_id => i = j

\* The step is the successful upsert of the recompute of worker w.
UpsertDone(w) ==
    /\ pc[w] = "recalculate_upsert"
    /\ pc'[w] # "recalculate_upsert"
    /\ ~(response'.worker = w /\ response'.status = "raised")

\* C5: project_statistics never holds two rows of one project; the upsert
\* inserts the row when the project has none and otherwise overwrites every
\* derived column of the one it has.
C5_AtMostOneRowPerProject ==
    [][/\ UniqueStatistics(project_statistics')
       /\ \A w \in Workers, p \in ProjectInputs :
             (UpsertDone(w) /\ call[w].project_id = p) =>
                /\ Cardinality(RowsIn(project_statistics', p)) = 1
                /\ \A i \in RowsIn(project_statistics', p) :
                      Derived(project_statistics'[i]) = ComputeStatistics(call[w].reports)
                /\ Len(project_statistics') =
                      Len(project_statistics) + (IF RowsOf(p) = {} THEN 1 ELSE 0)]_vars

C5_Witness ==
    /\ pc["w1"] = "create_return"
    /\ pc["w2"] = "statistics_refetch"
    /\ call["w1"].project_id = call["w2"].project_id
    /\ Len(project_statistics) = 1

\* C6: a create_citizen_report that ran with no other call beside it leaves,
\* once its recompute is done, the row of its project equal to a recompute
\* over all reports stored for the project, whatever the row was before.
C6_SoloCreateHeals ==
    \A w \in Workers :
        (pc[w] = "create_return" /\ solo[w]) => Fresh(call[w].project_id)

C6_Witness ==
    \E w \in Workers :
        pc[w] = "create_return" /\ solo[w] /\ call[w].before = "stale"

\* The step is a failure of the recompute inside create_citizen_report.
RecomputeFailed(w) ==
    /\ call[w].op = "create_citizen_report"
    /\ pc[w] \in {"recalculate_fetch", "recalculate_upsert"}
    /\ response'.worker = w
    /\ response'.status = "raised"

\* C7: no step removes or changes a stored review, and a failure of the
\* recompute that follows an insert leaves the inserted review stored, in
\* every list get_project_reports may return, and project_statistics as it was.
C7_FailedRecomputeKeepsInsert ==
    [][/\ \A i \in DOMAIN citizen_reports :
             i \in DOMAIN citizen_reports' /\ citizen_reports'[i] = citizen_reports[i]
       /\ \A w \in Workers, p \in ProjectInputs :
             (RecomputeFailed(w) /\ call[w].project_id = p) =>
                /\ \E i \in DOMAIN citizen_reports' :
                      citizen_reports'[i] = call[w].report_row[1]
                /\ \A result \in get_project_reports(p)' :
                      \E i \in DOMAIN result :
                         result[i] = FormatReport(call[w].report_row[1])
                /\ project_statistics' = project_statistics]_vars

C7_Witness ==
    /\ response.op = "create_citizen_report"
    /\ response.status = "raised"
    /\ response.at \in {"recalculate_fetch", "recalculate_upsert"}
    /\ \E i \in RowsOf(response.project_id) :
          project_statistics[i].total_reviews < Len(ReportsOf(response.project_id))

\* C8: a failure of the recompute that follows a successful insert is not
\* surfaced: create_citizen_report never ends in an exception raised by its
\* recompute.
C8_RecomputeFailureNotSurfaced ==
    ~(/\ response.op = "create_citizen_report"
      /\ response.status = "raised"
      /\ response.at \in {"recalculate_fetch", "recalculate_upsert"})

\* C9: get_project_statistics goes on to a recompute only when the project has
\* no row; with a row it returns the cached values and leaves
\* project_statistics unchanged; after its recompute the row exists.
C9_StatisticsReadRecomputesOnlyWhenMissing ==
    [][\A w \in Workers, p \in ProjectInputs :
          /\ (/\ pc[w] = "idle"
              /\ pc'[w] = "recalculate_fetch"
              /\ call'[w].op = "get_project_statistics"
              /\ call'[w].project_id = p) => RowsOf(p) = {}
          /\ (/\ pc[w] = "idle"
              /\ response'.worker = w
              /\ response'.op = "get_project_statistics"
              /\ response'.project_id = p) =>
                 /\ project_statistics' = project_statistics
                 /\ \E i \in RowsOf(p) :
                       response'.value = Some(FormatStatistics(project_statistics[i]))
          /\ (/\ pc[w] = "statistics_refetch"
              /\ call[w].project_id = p
              /\ response'.worker = w
              /\ response'.status = "ok") =>
                 /\ project_statistics' = project_statistics
                 /\ RowsIn(project_statistics', p) # {}]_vars

C9_Witness ==
    /\ response.op = "get_project_statistics"
    /\ response.status = "ok"
    /\ response.at = "idle"
    /\ response.value[1].total_reviews >= 1

\* The step ends a recalculate_project_statistics that began right after
\* another one of the same project had ended.
SecondRecalculateDone(w) ==
    /\ pc[w] = "recalculate_upsert"
    /\ call[w].op = "recalculate_project_statistics"
    /\ call[w].repeat
    /\ response'.worker = w
    /\ response'.status = "ok"

\* C10 as stated: the second of two recalculate_project_statistics calls in
\* immediate succession leaves every stored column of the row as the first
\* left it.
C10_RepeatedRecalculateSameRow ==
    [][\A w \in Workers : SecondRecalculateDone(w) =>
          project_statistics' = project_statistics]_vars

\* C10 as amended: the second call leaves every column but last_calculated as
\* the first left it.
C10_RepeatedRecalculateSameDerived ==
    [][\A w \in Workers : SecondRecalculateDone(w) =>
          /\ Len(project_statistics') = Len(project_statistics)
          /\ \A i \in DOMAIN project_statistics :
                /\ project_statistics'[i].project_id = project_statistics[i].project_id
                /\ Derived(project_statistics'[i]) = Derived(project_statistics[i])]_vars

C10_Witness ==
    /\ response.op = "recalculate_project_statistics"
    /\ response.status = "ok"
    /\ response.repeat
    /\ ReportsOf(response.project_id) # << >>
    /\ \E i \in RowsOf(response.project_id) : project_statistics[i].last_calculated > 0

-----------------------------------------------------------------------------
(* The statistics of a given review set *)

\* The steps of StoredSpec leave citizen_reports alone: the reports stored are
\* the review set the row of the project was computed from.
StoredRowWritten == AllIdle /\ RowsOf("P1") # {}

CompletedCount(reports) == Cardinality({i \in DOMAIN reports : reports[i].work_completed})

\* C11: the stored work_completed_percentage is 0 for the empty review set and
\* otherwise 100 * (reviews with work_completed) / (reviews); it lies in 0..100.
C11_PercentageOfCompleted ==
    \A i \in RowsOf("P1") :
        LET pct == project_statistics[i].work_completed_percentage
            n == Len(ReportsOf("P1"))
        IN /\ n = 0 => pct = [num |-> 0, den |-> 1]
           /\ n > 0 => pct.num * n = 100 * CompletedCount(ReportsOf("P1")) * pct.den
           /\ pct.den > 0 /\ 0 <= pct.num /\ pct.num <= 100 * pct.den

C11_Witness ==
    /\ StoredRowWritten
    /\ Len(ReportsOf("P1")) = 2
    /\ \E i \in RowsOf("P1") :
          project_statistics[i].work_completed_percentage = [num |-> 50, den |-> 1]

RECURSIVE NonNullRatings(_)
NonNullRatings(reports) ==
    IF reports = << >> THEN << >>
    ELSE (IF Head(reports).quality_rating # NULL
          THEN Head(reports).quality_rating ELSE << >>) \o NonNullRatings(Tail(reports))

\* C12: the stored average_quality_rating is null exactly when no review has
\* a rating, and otherwise the mean of the ratings present, unrated reviews
\* not entering the divisor.
C12_AverageOverRatedReviews ==
    \A i \in RowsOf("P1") :
        LET avg == project_statistics[i].average_quality_rating
            rated == NonNullRatings(ReportsOf("P1"))
        IN /\ avg = NULL <=> rated = << >>
           /\ avg # NULL =>
                 /\ avg[1].den > 0
                 /\ avg[1].num * Len(rated) = SumSeq(rated) * avg[1].den

C12_Witness ==
    /\ StoredRowWritten
    /\ Len(ReportsOf("P1")) = 2
    /\ Len(NonNullRatings(ReportsOf("P1"))) = 1
    /\ \E i \in RowsOf("P1") :
          project_statistics[i].average_quality_rating = Some([num |-> 5, den |-> 1])

TypeCountSum(row) ==
    row.progress_updates + row.quality_issues + row.completion_verifications
        + row.delay_reports + row.fraud_alerts

\* The label of the review does not normalize to one of the five canonical forms.
FailsNormalization(review_type) ==
    NormalizeType(review_type) \notin
        {progress_update, quality_issue, completion_verification, delay_report, fraud_alert}

\* C13: the five per-type counts sum to the number of reviews whose label
\* normalizes, every review being counted at most once: at most total_reviews,
\* and less exactly when some label fails to normalize.
C13_TypeCountsSumToNormalized ==
    \A i \in RowsOf("P1") :
        LET row == project_statistics[i]
            failing == {j \in DOMAIN ReportsOf("P1") :
                          FailsNormalization(ReportsOf("P1")[j].review_type)}
        IN /\ TypeCountSum(row) <= row.total_reviews
           /\ TypeCountSum(row) < row.total_reviews <=> failing # {}
           /\ TypeCountSum(row) = row.total_reviews - Cardinality(failing)

C13_Witness ==
    /\ StoredRowWritten
    /\ \E i \in RowsOf("P1") :
          /\ project_statistics[i].total_reviews = 2
          /\ TypeCountSum(project_statistics[i]) = 1

RECURSIVE StripLeading(_)
StripLeading(s) ==
    IF s # << >> /\ Head(s) = " " THEN StripLeading(Tail(s)) ELSE s

\* Repeated spaces as one, a trailing space as none.
RECURSIVE Squeeze(_)
Squeeze(s) ==
    IF s = << >> THEN << >>
    ELSE IF Head(s) = " " /\ (Len(s) = 1 \/ s[2] = " ") THEN Squeeze(Tail(s))
    ELSE <<Head(s)>> \o Squeeze(Tail(s))

\* The two labels differ in letter case and whitespace only.
SameLabel(a, b) ==
    Squeeze(StripLeading(StrLower(a))) = Squeeze(StripLeading(StrLower(b)))

\* C14: a review whose label differs from a canonical value only in letter
\* case or in leading, trailing or repeated spaces is counted in the bucket of
\* that value.
C14_NormalizationIgnoresCaseAndSpace ==
    \A i \in RowsOf("P1") :
        /\ project_statistics[i].quality_issues =
              Cardinality({j \in DOMAIN ReportsOf("P1") :
                             SameLabel(ReportsOf("P1")[j].review_type, QualityIssue)})
        /\ project_statistics[i].progress_updates =
              Cardinality({j \in DOMAIN ReportsOf("P1") :
                             SameLabel(ReportsOf("P1")[j].review_type, ProgressUpdate)})

-----------------------------------------------------------------------------
(* Scenarios of the statistics read *)

\* The step before this one returned the statistics of a stored project.
StatisticsReturned(project_id) ==
    /\ response.op = "get_project_statistics"
    /\ response.status = "ok"
    /\ response.project_id = project_id
    /\ project_id \in projects

\* C15: for a stored project with no reviews and no statistics row yet,
\* get_project_statistics returns total_reviews 0, average_quality_rating null
\* and a review_type_breakdown without any key.
C15_EmptyProjectEmptyBreakdown ==
    \A p \in StoredProjects :
        (/\ StatisticsReturned(p)
         /\ response.at = "statistics_refetch"
         /\ ReportsOf(p) = << >>) =>
            /\ response.value[1].total_reviews = 0
            /\ response.value[1].average_quality_rating = NULL
            /\ DOMAIN response.value[1].review_type_breakdown = {}

\* The project holds one review: Quality Issue, rating 4, work not completed.
OneQualityIssue(p) ==
    /\ Len(ReportsOf(p)) >= 1
    /\ ReportsOf(p)[1].review_type = QualityIssue
    /\ ReportsOf(p)[1].quality_rating = Some(4)
    /\ ReportsOf(p)[1].work_completed = FALSE

\* C16: after one create_citizen_report with type Quality Issue, rating 4 and
\* work_completed false on a project without reviews, get_project_statistics
\* returns total_reviews 1, percentage 0, average 4 and the breakdown
\* {"Quality Issue": 1} with no other key.
C16_OneReviewBreakdown ==
    \A p \in StoredProjects :
        (StatisticsReturned(p) /\ OneQualityIssue(p) /\ Len(ReportsOf(p)) = 1) =>
            /\ response.value[1].total_reviews = 1
            /\ response.value[1].work_completed_percentage = Frac(0, 1)
            /\ response.value[1].average_quality_rating = Some(Frac(4, 1))
            /\ response.value[1].review_type_breakdown = [k \in {"Quality Issue"} |-> 1]

\* C17: once a second create_citizen_report (Progress Update, no rating, work
\* completed) has followed the first review (rating 4, work not completed),
\* the statistics of the project are total_reviews 2, percentage 50, average 4.
C17_UnratedSecondReview ==
    \A p \in StoredProjects :
        (/\ AllIdle
         /\ OneQualityIssue(p)
         /\ Len(ReportsOf(p)) = 2
         /\ ReportsOf(p)[2].review_type = ProgressUpdate
         /\ ReportsOf(p)[2].quality_rating = NULL
         /\ ReportsOf(p)[2].work_completed = TRUE) =>
            /\ RowsOf(p) # {}
            /\ \A i \in RowsOf(p) :
                  /\ project_statistics[i].total_reviews = 2
                  /\ project_statistics[i].work_completed_percentage = Frac(50, 1)
                  /\ project_statistics[i].average_quality_rating = Some(Frac(4, 1))
            /\ StatisticsReturned(p) =>
                  /\ response.value[1].total_reviews = 2
                  /\ response.value[1].work_completed_percentage = Frac(50, 1)
                  /\ response.value[1].average_quality_rating = Some(Frac(4, 1))

C17_Witness ==
    /\ StatisticsReturned("P1")
    /\ OneQualityIssue("P1")
    /\ Len(ReportsOf("P1")) = 2
    /\ ReportsOf("P1")[2].quality_rating = NULL
    /\ ReportsOf("P1")[2].work_completed = TRUE
    /\ response.value[1].total_reviews = 2

-----------------------------------------------------------------------------
(* Outcomes of the review endpoints *)

\* The step answers an endpoint request that named a project not stored.
MissingProjectAnswered ==
    /\ response'.op \in {"submit_review_with_images", "get_specific_review",
                         "get_all_reviews", "get_project_review_summary"}
    /\ response'.project_id \notin projects

NotFoundNothingStored ==
    /\ response'.status = "404"
    /\ citizen_reports' = citizen_reports
    /\ project_statistics' = project_statistics

\* get specific review for a stored project that has no review of that id.
MissingReviewNotFound ==
    (response'.op = "get_specific_review" /\ response'.project_id \in projects) =>
        \A id \in ReviewIdInputs :
            (/\ get_specific_review(response'.project_id, id) = NULL
             /\ reviews_get_specific_review("w1", response'.project_id, id)) =>
                /\ response'.status = "404"
                /\ response'.value = Some("review")
                /\ citizen_reports' = citizen_reports
                /\ project_statistics' = project_statistics

C19_InvalidSubmissionStoresNothing ==
    [][response'.op = "submit_review_with_images" =>
          \A form \in FormInputs, id \in ReviewIdInputs :
             (/\ \/ form.review_text_length < MinReviewTextLength
                 \/ /\ form.quality_rating # NULL
                    /\ form.quality_rating[1] \notin MinQualityRating .. MaxQualityRating
              /\ submit_review_with_images("w1", id, response'.project_id, form)) =>
                 /\ response'.status = "422"
                 /\ response'.value # NULL
                 /\ response'.value[1] \cap {"review_text", "quality_rating"} # {}
                 /\ citizen_reports' = citizen_reports
                 /\ project_statistics' = project_statistics]_vars

C19_Witness ==
    /\ response.op = "submit_review_with_images"
    /\ response.status = "422"
    /\ response.value = Some({"review_text", "quality_rating"})
    /\ response.project_id \in projects
    /\ citizen_reports # << >>

-----------------------------------------------------------------------------
(* The filters of get_all_projects *)

\* needle occurs in text, letter case aside.
ContainsIgnoringCase(text, needle) ==
    \E i \in 1 .. (Len(text) - Len(needle) + 1) :
        SubSeq(StrLower(text), i, i + Len(needle) - 1) = StrLower(needle)

NullableContains(text, needle) == text # NULL /\ ContainsIgnoringCase(text[1], needle)

HasNumber(amount) == amount # NULL /\ "number" \in DOMAIN amount[1]

\* The row satisfies every filter that is supplied (not None).
SatisfiesSupplied(row, filters) ==
    LET amount == PlanText(row, "contract_amount") IN
    /\ filters.ministry # NULL => ContainsIgnoringCase(row.ministry, filters.ministry[1])
    /\ filters.status # NULL => row.status = filters.status[1]
    /\ filters.fiscal_year # NULL => row.fiscal_year = filters.fiscal_year[1]
    /\ filters.min_amount # NULL =>
          HasNumber(amount) /\ amount[1].number >= filters.min_amount[1]
    /\ filters.max_amount # NULL =>
          HasNumber(amount) /\ amount[1].number <= filters.max_amount[1]
    /\ filters.search # NULL =>
          \/ ContainsIgnoringCase(row.ministry, filters.search[1])
          \/ NullableContains(PlanText(row, "details_of_work"), filters.search[1])
          \/ NullableContains(PlanText(row, "contractor_name"), filters.search[1])

\* C20: with pagination out of the way (limit above the number of projects,
\* offset 0) get_all_projects returns exactly the projects that satisfy every
\* supplied filter: ministry as a case-insensitive substring, status and
\* fiscal year exactly, the amount bounds, the search; all of them with none.
C20_FiltersCombineWithAnd ==
    [][\A filters \in FilterInputs :
          get_all_projects("w1", filters, 100, 0) =>
             /\ response'.status = "ok"
             /\ {response'.value[1][i].id : i \in DOMAIN response'.value[1]} =
                   {p \in projects : SatisfiesSupplied(project_rows[p], filters)}]_vars

-----------------------------------------------------------------------------
(* The amount bounds of get_all_projects *)

\* get_all_projects has answered with a list of projects.
ProjectsAnswered == response.op = "get_all_projects" /\ response.status = "ok"

\* The call that was answered had pagination out of the way.
WholeAnswer == ProjectsAnswered /\ response.limit = 100 /\ response.offset = 0

\* The ids of the projects in the answer.
ReturnedIds == {response.value[1][i].id : i \in DOMAIN response.value[1]}

\* The contract amount of the project is a number inside the supplied bounds.
WithinBounds(row, filters) ==
    LET amount == PlanText(row, "contract_amount") IN
    /\ filters.min_amount # NULL =>
          HasNumber(amount) /\ amount[1].number >= filters.min_amount[1]
    /\ filters.max_amount # NULL =>
          HasNumber(amount) /\ amount[1].number <= filters.max_amount[1]

\* C21: for every supplied min_amount and max_amount, zero included, a call of
\* get_all_projects that answers returns only projects whose contract amount
\* lies within the bounds; a project without contract amount is in no
\* amount-bounded answer, and is in the answer of a call without bounds when
\* it satisfies the other filters.
C21_AmountWithinSuppliedBounds ==
    WholeAnswer =>
       /\ \A p \in ReturnedIds : WithinBounds(project_rows[p], response.filters)
       /\ (response.filters.min_amount = NULL /\ response.filters.max_amount = NULL) =>
             \A p \in projects :
                (/\ PlanText(project_rows[p], "contract_amount") = NULL
                 /\ SatisfiesSupplied(project_rows[p], response.filters)) =>
                    p \in ReturnedIds

\* C22: an amount-bounded call of get_all_projects answers even when a
\* project's contract amount is not a number: that project alone is left out,
\* and every project that satisfies the supplied filters is returned.
C22_NonNumericAmountOnlyExcluded ==
    (/\ response.op = "get_all_projects"
     /\ response.filters.min_amount # NULL \/ response.filters.max_amount # NULL) =>
        /\ response.status = "ok"
        /\ \A p \in ReturnedIds :
              ~CastFails(PlanText(project_rows[p], "contract_amount"))
        /\ (response.limit = 100 /\ response.offset = 0) =>
              \A p \in projects :
                 SatisfiesSupplied(project_rows[p], response.filters) => p \in ReturnedIds

-----------------------------------------------------------------------------
(* The free-text search of get_all_projects *)

\* The search text occurs, letter case aside, in the ministry, in the details
\* of work or in the contractor name of the project.
SearchMatches(row, text) ==
    \/ ContainsIgnoringCase(row.ministry, text)
    \/ NullableContains(PlanText(row, "details_of_work"), text)
    \/ NullableContains(PlanText(row, "contractor_name"), text)

\* C23: a call of get_all_projects with a search text returns a project if and
\* only if the text is a case-insensitive substring of its ministry, details of
\* work or contractor name and the project satisfies every other supplied
\* filter.
C23_SearchIsOrOfThreeFields ==
    (/\ response.op = "get_all_projects"
     /\ response.limit = 100 /\ response.offset = 0
     /\ response.filters.search # NULL) =>
        ReturnedIds =
           {p \in projects :
              /\ SearchMatches(project_rows[p], response.filters.search[1])
              /\ SatisfiesSupplied(project_rows[p],
                                   [response.filters EXCEPT !.search = NULL])}

-----------------------------------------------------------------------------
(* Pagination of get_all_projects *)

DistinctCreation ==
    \A p, q \in projects : p # q => project_rows[p].created_at # project_rows[q].created_at

\* The ids in the order of creation, the most recent first.
MostRecentFirst(ids) ==
    CHOOSE s \in [1 .. Cardinality(ids) -> ids] :
        \A i, j \in DOMAIN s :
            i < j => project_rows[s[i]].created_at > project_rows[s[j]].created_at

\* At most limit elements of the sequence from position offset on (first is 0).
Slice(s, limit, offset) ==
    [i \in 1 .. (IF Len(s) - offset > limit THEN limit
                 ELSE IF Len(s) > offset THEN Len(s) - offset ELSE 0) |-> s[offset + i]]

\* The ids of the answer, in the order of the answer.
ReturnedOrder == [i \in DOMAIN response.value[1] |-> response.value[1][i].id]

\* C24: when no two projects share a creation time, the answer for
\* (limit, offset) is the slice of at most limit projects from position offset
\* of the filtered projects ordered most recent first; the pages at offsets 0,
\* limit, 2*limit, ... hold every matching project exactly once.
C24_PageIsSliceOfOrdered ==
    (ProjectsAnswered /\ DistinctCreation) =>
        LET ordered == MostRecentFirst(MatchedProjects(response.filters))
            limit == response.limit
        IN
        /\ ReturnedOrder = Slice(ordered, limit, response.offset)
        /\ \A i \in DOMAIN ordered :
              \A k \in 0 .. Len(ordered) :
                 (\E j \in DOMAIN Slice(ordered, limit, k * limit) :
                     Slice(ordered, limit, k * limit)[j] = ordered[i])
                 <=> k = (i - 1) \div limit

C24_Witness ==
    /\ ProjectsAnswered
    /\ DistinctCreation
    /\ response.limit = 1
    /\ response.offset = 1
    /\ Cardinality(MatchedProjects(response.filters)) = 3
    /\ Len(ReturnedOrder) = 1
    /\ project_rows[ReturnedOrder[1]].created_at = 1

-----------------------------------------------------------------------------
(* The review count of the projects of get_all_projects *)

\* C25: each project that get_all_projects returns between the submissions of
\* a single caller carries citizen_reports_count 0 when it has no statistics
\* row, and the number of reviews get_project_reports returns for it.
C25_LiveReviewCount ==
    [][get_all_projects("w1", NoFilters, 100, 0) =>
          /\ response'.status = "ok"
          /\ {response'.value[1][i].id : i \in DOMAIN response'.value[1]} = projects
          /\ \A i \in DOMAIN response'.value[1] :
                LET project == response'.value[1][i] IN
                /\ SelectStatistics(project_statistics, project.id) = NULL =>
                      project.citizen_reports_count = 0
                /\ \A reports \in get_project_reports(project.id) :
                      project.citizen_reports_count = Len(reports)]_vars

C25_Witness ==
    /\ ProjectsAnswered
    /\ \E i, j \in DOMAIN response.value[1] :
          /\ response.value[1][i].citizen_reports_count = 2
          /\ Len(ReportsOf(response.value[1][i].id)) = 2
          /\ response.value[1][j].citizen_reports_count = 0
          /\ SelectStatistics(project_statistics, response.value[1][j].id) = NULL

-----------------------------------------------------------------------------
(* get_project_by_id *)

\* The list holds the stored reviews of the project, each once, the most
\* recent first.
ListsStoredReviews(list, project_id) ==
    /\ Len(list) = Len(ReportsOf(project_id))
    /\ \A k \in DOMAIN ReportsOf(project_id) :
          \E i \in DOMAIN list : list[i] = FormatReport(ReportsOf(project_id)[k])
    /\ \A i, j \in DOMAIN list : i # j => list[i].review_id # list[j].review_id
    /\ \A i, j \in DOMAIN list : i < j => list[i].timestamp.iso >= list[j].timestamp.iso

\* C26: get_project_by_id returns None for an id that no project row has, and
\* otherwise a project whose citizen_reports are exactly the stored reviews of
\* the project, each once, ordered most recent first.
C26_ProjectWithItsReviews ==
    \A p \in ProjectInputs :
        IF p \in projects
        THEN /\ get_project_by_id(p) # NULL
             /\ get_project_by_id(p)[1].id = p
             /\ get_project_by_id(p)[1].citizen_reports # {}
             /\ \A list \in get_project_by_id(p)[1].citizen_reports :
                   ListsStoredReviews(list, p)
        ELSE get_project_by_id(p) = NULL

C26_Witness ==
    /\ get_project_by_id("PX") = NULL
    /\ Len(ReportsOf("P1")) = 2
    /\ ReportsOf("P1")[1].created_at < ReportsOf("P1")[2].created_at
    /\ \A list \in get_project_by_id("P1")[1].citizen_reports :
          list[1].review_id = ReportsOf("P1")[2].review_id

-----------------------------------------------------------------------------
(* The documents of a review, written and read back *)

\* The review carries the geolocation and the photographs of the input.
CarriesDocuments(review, input) ==
    /\ review.geolocation = input.geolocation
    /\ review.photo_urls = input.photo_urls

\* C27: for every geolocation (None, the empty dictionary, a position) and
\* every list of photographs (the empty list included) given to
\* create_citizen_report, the review it returns and the review read afterwards
\* with get_specific_review and with get_project_reports carry that
\* geolocation and that list.
C27_DocumentsRoundTrip ==
    [][\A id \in ReviewIdInputs, p \in projects, input \in DocumentInputs :
          (/\ create_citizen_report("w1", id, p, input)
           /\ Len(citizen_reports') > Len(citizen_reports)) =>
              /\ CarriesDocuments(FormatReport(call'["w1"].report_row[1]), input)
              /\ get_specific_review(p, id)' # NULL
              /\ CarriesDocuments(get_specific_review(p, id)'[1], input)
              /\ \A list \in get_project_reports(p)' :
                    \E i \in DOMAIN list :
                       list[i].review_id = id /\ CarriesDocuments(list[i], input)]_vars

-----------------------------------------------------------------------------
(* Review ids *)

UniqueReviewIds ==
    \A i, j \in DOMAIN citizen_reports :
        citizen_reports[i].review_id = citizen_reports[j].review_id => i = j

\* A review with this id is stored.
ReviewIdStored(review_id) ==
    \E i \in DOMAIN citizen_reports : citizen_reports[i].review_id = review_id

\* C28: no two stored reviews ever share a review_id; a create_citizen_report
\* with a review_id that is stored raises, inserts no row and leaves the
\* reviews and the statistics rows as they were.
C28_ReviewIdsUnique ==
    /\ []UniqueReviewIds
    /\ [][\A w \in Workers, id \in ReviewIdInputs, p \in ConcurrentProjectInputs,
             input \in ConcurrentReviewInputs :
             (ReviewIdStored(id) /\ create_citizen_report(w, id, p, input)) =>
                /\ response'.status = "raised"
                /\ citizen_reports' = citizen_reports
                /\ project_statistics' = project_statistics]_vars

C28_Witness ==
    /\ response.op = "create_citizen_report"
    /\ response.status = "raised"
    /\ response.at = "idle"
    /\ response.project_id \in projects
    /\ citizen_reports # << >>
    /\ RowsOf(response.project_id) # {}
    /\ UniqueReviewIds

-----------------------------------------------------------------------------
(* The cached counts against the stored reviews *)

\* The counts of a statistics row that count reviews of one kind.
PartialCounts(row) ==
    {row.progress_updates, row.quality_issues, row.completion_verifications,
     row.delay_reports, row.fraud_alerts, row.verified_reviews,
     row.reviews_with_images}

\* C29: under every interleaving of create_citizen_report and
\* get_project_statistics calls, the total_reviews of a statistics row is at
\* most the number of reviews stored for its project, and each per-type,
\* verified and with-images count of the row is at most its total_reviews.
C29_CacheNeverOvercounts ==
    \A i \in DOMAIN project_statistics :
        /\ project_statistics[i].total_reviews <=
              Len(ReportsOf(project_statistics[i].project_id))
        /\ \A n \in PartialCounts(project_statistics[i]) :
              n <= project_statistics[i].total_reviews

C29_Witness ==
    \E i \in DOMAIN project_statistics :
        /\ project_statistics[i].total_reviews = 1
        /\ Len(ReportsOf(project_statistics[i].project_id)) = 2
        /\ project_statistics[i].quality_issues = 1
        /\ \E w \in Workers : pc[w] = "idle" /\ response.op = "get_project_statistics"

-----------------------------------------------------------------------------
(* The recompute of create_citizen_report after its insert *)

\* Worker w is inside create_citizen_report, past its insert.
InCreate(w) == call[w].op = "create_citizen_report" /\ pc[w] # "idle"

\* The place of the review worker w inserted among the stored reviews of its
\* project: the number of reviews the project had right after that insert.
OwnPosition(w) ==
    CHOOSE k \in DOMAIN ReportsOf(call[w].project_id) :
        ReportsOf(call[w].project_id)[k] = call[w].report_row[1]

\* C30: the recompute of a create_citizen_report runs only after the insert of
\* that call has stored its review; the reviews the recompute reads contain
\* that review, and the total_reviews it writes is at least the number of
\* reviews the project had right after the insert, whatever the other calls do.
C30_RecomputeSeesOwnInsert ==
    /\ [](\A w \in Workers :
             InCreate(w) =>
                /\ \E k \in DOMAIN ReportsOf(call[w].project_id) :
                      ReportsOf(call[w].project_id)[k] = call[w].report_row[1]
                /\ pc[w] \in {"recalculate_upsert", "create_return"} =>
                      /\ \E i \in DOMAIN call[w].reports :
                            call[w].reports[i] = call[w].report_row[1]
                      /\ Len(call[w].reports) >= OwnPosition(w))
    /\ [][\A w \in Workers :
             (InCreate(w) /\ recalculate_upsert(w) /\ pc'[w] = "create_return") =>
                \A i \in DOMAIN project_statistics' :
                   project_statistics'[i].project_id = call[w].project_id =>
                      /\ project_statistics'[i].total_reviews = Len(call[w].reports)
                      /\ project_statistics'[i].total_reviews >= OwnPosition(w)]_vars

C30_Witness ==
    \E w \in Workers :
        /\ InCreate(w)
        /\ pc[w] = "create_return"
        /\ OwnPosition(w) = 1
        /\ Len(call[w].reports) = 2
        /\ \E i \in RowsOf(call[w].project_id) : project_statistics[i].total_reviews = 2

====
